---- MODULE Spec2Model ----
(***************************************************************************)
(* Model of the report-generation API route of researchai                  *)
(* (src/unnamed/part_000): the request handler with its progress stream,   *)
(* cache gateway and per-competitor fan-out, and the generatePDF layout    *)
(* routine.                                                                *)
(*                                                                         *)
(* Spec     the handler: a sequence of requests served one after the       *)
(*          other over one shared cache, each an async function whose      *)
(*          map callbacks interleave at their await points.  One action    *)
(*          is one run-to-completion turn of the event loop: the code      *)
(*          from one await to the next, with the promise continuations     *)
(*          (microtasks) that follow it immediately.                       *)
(* SpecPDF  generatePDF, statement by statement, on inputs drawn from      *)
(*          bounded sets.                                                  *)
(***************************************************************************)
EXTENDS Integers, Sequences, FiniteSets, TLC

(* ------------------------------ bounds -------------------------------- *)

\* Longest competitor list of a request.
MaxCompetitors == 2
\* Number of clock steps (each half the cache expiry) a behaviour may take.
MaxTicks == 2
\* Longest narrative text, in lines, and longest section list.
MaxLines == 2
MaxSections == 2
\* Rows a long line of the narrative wraps to.
LongRows == 30
\* Pages after which the model stops following a document that keeps growing.
MaxPages == 17

(* ------------------------- program constants -------------------------- *)

\* setCachedData(cacheKey, ..., 86400): cache for 24 hours.
CacheSeconds == 86400
\* One clock step of the model: half the expiry.
TickSeconds == CacheSeconds \div 2

Identifiers == {"acme", "globex"}
Methods == {"POST", "GET"}
\* reportFormat: the three formats the form offers, and one it does not.
Formats == {"detailed", "summary", "presentation", "xml"}
\* The formats requests are made with: presentation and summary are the same
\* to handler, which only passes the format on.
RequestFormats == {"detailed", "summary", "xml"}

RECURSIVE SeqsUpTo(_, _)
\* All sequences over S of length at most n.
SeqsUpTo(S, n) ==
  IF n = 0 THEN {<<>>}
  ELSE LET shorter == SeqsUpTo(S, n - 1)
       IN  shorter \cup {Append(s, x) : s \in {t \in shorter : Len(t) = n - 1}, x \in S}

\* req.body: competitors may be absent (undefined) or a list of identifiers.
Bodies ==
  [hasCompetitors : {TRUE}, competitors : SeqsUpTo(Identifiers, MaxCompetitors),
   reportSections : {<<"Market Overview">>}, reportFormat : RequestFormats]
  \cup
  [hasCompetitors : {FALSE}, competitors : {<<>>},
   reportSections : {<<"Market Overview">>}, reportFormat : {"summary"}]

NoBody ==
  [hasCompetitors |-> FALSE, competitors |-> <<>>,
   reportSections |-> <<>>, reportFormat |-> ""]

(* ------------------- ScrapedData and its JSON text -------------------- *)

\* The ScrapedData interface: string fields and list fields, in the order
\* in which scrapeWebsite's object literal creates them.
FieldOrder ==
  <<"companyName", "productNames", "productDescriptions", "pricing",
    "contactInfo", "socialMediaLinks", "newsHeadlines", "keyFeatures", "images">>
StringFields == {"companyName", "contactInfo"}

\* scrapeWebsite(`https://www.${competitor}.com`): what the site shows at
\* fetch time.  The page of a competitor changes from one clock step to the
\* next (here: the order and number of extracted items).
scrapeWebsite(competitor, time) ==
  LET odd == ((time \div TickSeconds) % 2) = 1
  IN  [companyName         |-> competitor,
       productNames        |-> IF odd THEN <<"beta", "alpha">> ELSE <<"alpha", "beta">>,
       productDescriptions |-> IF odd THEN <<"d1">> ELSE <<>>,
       pricing             |-> <<"9.99">>,
       contactInfo         |-> "",
       socialMediaLinks    |-> <<>>,
       newsHeadlines       |-> <<>>,
       keyFeatures         |-> IF odd THEN <<>> ELSE <<"fast">>,
       images              |-> <<>>]

NoRecord ==
  [companyName |-> "", productNames |-> <<>>, productDescriptions |-> <<>>,
   pricing |-> <<>>, contactInfo |-> "", socialMediaLinks |-> <<>>,
   newsHeadlines |-> <<>>, keyFeatures |-> <<>>, images |-> <<>>, none |-> TRUE]

\* JSON text is a sequence of tokens.
Punct(p) == [t |-> p, v |-> ""]
Str(s) == [t |-> "string", v |-> s]

RECURSIVE JoinTokens(_, _)
\* The items of a list, comma separated.
JoinTokens(items, k) ==
  IF k > Len(items) THEN <<>>
  ELSE (IF k > 1 THEN <<Punct(",")>> ELSE <<>>) \o <<Str(items[k])>>
       \o JoinTokens(items, k + 1)

StringifyValue(field, value) ==
  IF field \in StringFields THEN <<Str(value)>>
  ELSE <<Punct("[")>> \o JoinTokens(value, 1) \o <<Punct("]")>>

RECURSIVE StringifyFields(_, _)
StringifyFields(record, k) ==
  IF k > Len(FieldOrder) THEN <<>>
  ELSE (IF k > 1 THEN <<Punct(",")>> ELSE <<>>)
       \o <<Str(FieldOrder[k]), Punct(":")>>
       \o StringifyValue(FieldOrder[k], record[FieldOrder[k]])
       \o StringifyFields(record, k + 1)

\* JSON.stringify(scrapedData)
JSONstringify(record) ==
  <<Punct("{")>> \o StringifyFields(record, 1) \o <<Punct("}")>>

\* Parsing: a cursor over the tokens.  Each step returns the value read and
\* the position after it; ok = FALSE is a SyntaxError.
RECURSIVE ParseItems(_, _, _)
ParseItems(toks, pos, acc) ==
  IF pos > Len(toks) THEN [ok |-> FALSE, val |-> acc, next |-> pos]
  ELSE IF toks[pos] = Punct("]") /\ acc = <<>>
       THEN [ok |-> TRUE, val |-> acc, next |-> pos + 1]
  ELSE IF toks[pos].t # "string" THEN [ok |-> FALSE, val |-> acc, next |-> pos]
  ELSE LET acc2 == Append(acc, toks[pos].v)
       IN  IF pos + 1 > Len(toks) THEN [ok |-> FALSE, val |-> acc2, next |-> pos]
           ELSE IF toks[pos + 1] = Punct("]")
                THEN [ok |-> TRUE, val |-> acc2, next |-> pos + 2]
           ELSE IF toks[pos + 1] = Punct(",")
                THEN ParseItems(toks, pos + 2, acc2)
           ELSE [ok |-> FALSE, val |-> acc2, next |-> pos]

\* A member "key": value at position pos.
ParseMember(toks, pos) ==
  IF pos + 2 > Len(toks) \/ toks[pos].t # "string" \/ toks[pos + 1] # Punct(":")
  THEN [ok |-> FALSE, key |-> "", isList |-> FALSE, str |-> "", list |-> <<>>, next |-> pos]
  ELSE IF toks[pos + 2].t = "string"
       THEN [ok |-> TRUE, key |-> toks[pos].v, isList |-> FALSE,
             str |-> toks[pos + 2].v, list |-> <<>>, next |-> pos + 3]
  ELSE IF toks[pos + 2] = Punct("[")
       THEN LET items == ParseItems(toks, pos + 3, <<>>)
            IN  [ok |-> items.ok, key |-> toks[pos].v, isList |-> TRUE,
                 str |-> "", list |-> items.val, next |-> items.next]
  ELSE [ok |-> FALSE, key |-> "", isList |-> FALSE, str |-> "", list |-> <<>>, next |-> pos]

RECURSIVE ParseMembers(_, _, _)
\* The members of an object, in text order; acc is the sequence of members.
ParseMembers(toks, pos, acc) ==
  LET m == ParseMember(toks, pos)
  IN  IF ~m.ok THEN [ok |-> FALSE, members |-> acc]
      ELSE LET acc2 == Append(acc, m)
           IN  IF m.next > Len(toks) THEN [ok |-> FALSE, members |-> acc2]
               ELSE IF toks[m.next] = Punct("}")
                    THEN [ok |-> m.next = Len(toks), members |-> acc2]
               ELSE IF toks[m.next] = Punct(",")
                    THEN ParseMembers(toks, m.next + 1, acc2)
               ELSE [ok |-> FALSE, members |-> acc2]

\* JSON.parse(cachedData): ok = FALSE when it throws.  The object read has
\* the members of the text, each a string or a list as the text says.
JSONparse(toks) ==
  IF Len(toks) < 2 \/ toks[1] # Punct("{") THEN [ok |-> FALSE, members |-> <<>>]
  ELSE IF toks[2] = Punct("}") THEN [ok |-> Len(toks) = 2, members |-> <<>>]
  ELSE ParseMembers(toks, 2, <<>>)

\* The parsed object as a ScrapedData value, when it has exactly the
\* interface's fields (the code does not check: it uses the object as is).
Member(members, field) ==
  LET hits == {k \in 1..Len(members) : members[k].key = field}
  IN  IF hits = {}
      THEN [ok |-> TRUE, key |-> field, isList |-> FALSE, str |-> "undefined",
            list |-> <<>>, next |-> 0]
      ELSE members[CHOOSE k \in hits : \A j \in hits : j <= k]

AsRecord(members) ==
  [f \in {FieldOrder[k] : k \in 1..Len(FieldOrder)} |->
     LET m == Member(members, f) IN IF m.isList THEN m.list ELSE m.str]

(* ------------------------------ state --------------------------------- *)

VARIABLES
  now,            \* the clock, in seconds
  cache,          \* the Redis store: key -> stored text and its expiry time
  pc,             \* where handler is, for the request being served
  method,         \* req.method
  readIssuedAt,   \* per list entry: the events on the stream when its cache read was issued
  body,           \* req.body
  entry,          \* per list index: where the map callback is
  cachedData,     \* per index: what getCachedData returned
  scrapedData,    \* per index: what scrapeWebsite returned
  competitorData, \* per index: what the callback returned
  progressStream, \* what was pushed on the stream, in order
  res,            \* the calls made on the response, in order
  calls,          \* counts of the external calls made
  cacheWrites,    \* per index: the setCachedData call made
  analysisArgs,   \* the arguments of the generateAIAnalysis call
  analysisResult, \* the text generateAIAnalysis returned
  pdfArgs,        \* the arguments of the generatePDF call
  cacheWasEmpty,  \* whether the store was empty when the request arrived
  previous        \* the request served before this one, if it got its report

handlerVars ==
  <<now, cache, pc, method, body, readIssuedAt, entry, cachedData, scrapedData, competitorData,
    progressStream, res, calls, cacheWrites, analysisArgs, analysisResult,
    pdfArgs, cacheWasEmpty, previous>>


Slots == 1..MaxCompetitors

\* One key for every competitor.
cacheKeyShared(competitor) == "competitor:" \o "acme"

\* `competitor:${competitor}`
cacheKey(competitor) == "competitor:" \o competitor
Keys == {cacheKey(c) : c \in Identifiers}

\* What redis.get returns: null, or the stored string.
Null == [isNull |-> TRUE, text |-> <<>>]
Value(text) == [isNull |-> FALSE, text |-> text]
NoEntry == [present |-> FALSE, text |-> <<>>, expiresAt |-> 0]

\* getCachedData(key): redis.get(key) at the given time; an entry whose EX
\* time has passed is gone.
getCachedData(store, key, time) ==
  IF store[key].present /\ time < store[key].expiresAt
  THEN Value(store[key].text) ELSE Null

\* A store that takes the expiry for milliseconds.
setCachedDataMilliseconds(store, key, value, expirationInSeconds, time) ==
  [store EXCEPT ![key] =
     [present |-> TRUE, text |-> value,
      expiresAt |-> time + expirationInSeconds \div 1000]]

\* setCachedData(key, value, expirationInSeconds): redis.set(key, value, 'EX', n)
setCachedData(store, key, value, expirationInSeconds, time) ==
  [store EXCEPT ![key] =
     [present |-> TRUE, text |-> value, expiresAt |-> time + expirationInSeconds]]

\* if (cachedData): null and the empty string are falsy.
Truthy(value) == ~value.isNull /\ value.text # <<>>

(* --------------------------- progress events -------------------------- *)

Event(m, i, n, c) == [message |-> m, index |-> i, total |-> n, competitor |-> c]
EvStarting == Event("Starting report generation...", 0, 0, "")
EvAnalyzing(i, n) == Event("Analyzing competitor", i, n, "")
EvUsingCached(c) == Event("Using cached data for", 0, 0, c)
EvGenerating == Event("Generating AI analysis...", 0, 0, "")
EvCreating == Event("Creating PDF report...", 0, 0, "")
EvComplete == Event("Report generation complete!", 0, 0, "")
\* progressStream.push(null)
EndOfStream == Event("null", 0, 0, "")

\* sendProgress(message): one data frame pushed on the stream.
sendProgress(stream, event) == Append(stream, event)

RECURSIVE AnalyzingEventsFromZero(_, _)
\* The same events numbered with the callback's index instead of index + 1.
AnalyzingEventsFromZero(k, n) ==
  IF k > n THEN <<>>
  ELSE <<EvAnalyzing(k - 1, n)>> \o AnalyzingEventsFromZero(k + 1, n)

RECURSIVE AnalyzingEvents(_, _)
\* The events the map callbacks push before their first await, in list order.
AnalyzingEvents(k, n) ==
  IF k > n THEN <<>> ELSE <<EvAnalyzing(k, n)>> \o AnalyzingEvents(k + 1, n)

\* A callback that awaits getCachedData before it sends its event.
IssuedBeforeEvent(i, n) ==
  Len(sendProgress(<<>>, EvStarting) \o AnalyzingEvents(1, i - 1))

\* The number of events on the stream when the callback of entry i issues
\* its cache read: the callbacks before it and its own sendProgress have run.
IssuedAt(i, n) ==
  Len(sendProgress(<<>>, EvStarting) \o AnalyzingEvents(1, i))

(* ---------------------------- the response ---------------------------- *)

ResSSE == [call |-> "writeHead", status |-> 200, type |-> "text/event-stream", length |-> 0]
ResPDFHead(len) == [call |-> "writeHead", status |-> 200, type |-> "application/pdf", length |-> len]
ResEnd(len) == [call |-> "end", status |-> 0, type |-> "pdfBuffer", length |-> len]
ResAllow == [call |-> "setHeader", status |-> 0, type |-> "Allow: POST", length |-> 0]
ResNotFound == [call |-> "status.end", status |-> 404, type |-> "Not Found", length |-> 0]
Res405 == [call |-> "status.end", status |-> 405, type |-> "Method Not Allowed", length |-> 0]
Res500 == [call |-> "status.json", status |-> 500,
           type |-> "An error occurred while generating the report", length |-> 0]

\* The status line the caller receives: that of the first call that writes
\* the response head.  res.writeHead(200, ...) for the event stream comes
\* before anything that can fail, so a later res.status(500) cannot replace
\* it; 0 when no head has been written.
HeadCalls == {"writeHead", "status.end", "status.json"}
StatusSent(rs) ==
  LET heads == {k \in 1..Len(rs) : rs[k].call \in HeadCalls}
  IN  IF heads = {} THEN 0 ELSE rs[CHOOSE k \in heads : \A j \in heads : k <= j].status

\* The response head the caller receives: the first head written.
NoHead == [call |-> "", status |-> 0, type |-> "", length |-> 0]
HeadSent(rs) ==
  LET heads == {k \in 1..Len(rs) : rs[k].call \in HeadCalls}
  IN  IF heads = {} THEN NoHead ELSE rs[CHOOSE k \in heads : \A j \in heads : k <= j]

(* ------------------------- narrative and layout ----------------------- *)

\* What generateAIAnalysis may return: opaque text.  All the handler can
\* observe of it is what generatePDF does with it; pages is the number of
\* pages its content pass fills (see SpecPDF).
Texts == {[text |-> "brief", pages |-> 1], [text |-> "long", pages |-> 2]}
NoText == [text |-> "", pages |-> 0]

\* What the call generatePDF(analysisResult, reportSections, reportFormat)
\* does, as SpecPDF establishes: the detailed format never leaves the
\* padding loop; content of more than one page makes switchToPage(0) throw
\* inside the promise executor, which rejects the promise; otherwise the
\* promise is resolved when the document stream ends.
pdfOutcome(text, format) ==
  IF format = "detailed" THEN "loops"
  ELSE IF text.pages > 1 THEN "rejects"
  ELSE "resolves"

\* pdfBuffer.length of the resolved document.
BufferLength(text) == 1024 * text.pages

(* ------------------------------ handler ------------------------------- *)

NoCalls ==
  [cacheReads |-> [i \in Slots |-> 0], adapter |-> [i \in Slots |-> 0],
   cacheSets |-> [i \in Slots |-> 0], generate |-> 0, pdf |-> 0]
NoWrite == [key |-> "", expirationInSeconds |-> 0, storedAt |-> -1]
\* The arguments of the generateAIAnalysis and generatePDF calls, with the
\* number of events on the stream when the call was made.
NoArgs == [data |-> <<>>, sections |-> <<>>, format |-> "", eventsSent |-> 0]
NoPdfArgs ==
  [analysisResult |-> NoText, sections |-> <<>>, format |-> "", eventsSent |-> 0]
NoPrevious ==
  [completed |-> FALSE, cacheWasEmpty |-> FALSE, competitors |-> <<>>,
   scrapedData |-> [i \in Slots |-> NoRecord], cacheWrites |-> [i \in Slots |-> NoWrite]]

HandlerInit ==
  /\ now = 0
  /\ cache = [k \in Keys |-> NoEntry]
  /\ pc = "idle"
  /\ method = ""
  /\ readIssuedAt = [i \in Slots |-> 0]
  /\ body = NoBody
  /\ entry = [i \in Slots |-> "none"]
  /\ cachedData = [i \in Slots |-> Null]
  /\ scrapedData = [i \in Slots |-> NoRecord]
  /\ competitorData = [i \in Slots |-> NoRecord]
  /\ progressStream = <<>>
  /\ res = <<>>
  /\ calls = NoCalls
  /\ cacheWrites = [i \in Slots |-> NoWrite]
  /\ analysisArgs = NoArgs
  /\ analysisResult = NoText
  /\ pdfArgs = NoPdfArgs
  /\ cacheWasEmpty = TRUE
  /\ previous = NoPrevious

\* A map callback is between its call and the settling of its promise.
Pending(i) == entry[i] \in {"reading", "scraping", "writing"}

\* The next request arrives once the one before has been answered and its
\* callbacks have settled.  What the model keeps of the request before is
\* previous: its list and what it fetched and stored, if it started with an
\* empty store and got its report.
Arrives ==
  /\ pc \in {"idle", "done", "error", "rejected"}
  /\ \A i \in Slots : ~Pending(i)
  /\ cacheWasEmpty' = \A k \in Keys : ~cache[k].present
  /\ previous' =
       IF pc = "done" /\ cacheWasEmpty
       THEN [completed |-> TRUE, cacheWasEmpty |-> cacheWasEmpty,
             competitors |-> body.competitors, scrapedData |-> scrapedData,
             cacheWrites |-> cacheWrites]
       ELSE NoPrevious

\* A handler that goes on as soon as one callback has resolved.
AfterFirstCallback(awaiting, e, d, s, c, b, rs) ==
  LET n == Len(b.competitors)
  IN  IF awaiting /\ \E i \in 1..n : e[i] = "rejected"
      THEN /\ pc' = "error"
           /\ progressStream' = s
           /\ res' = Append(rs, Res500)
           /\ calls' = c
           /\ analysisArgs' = NoArgs
      ELSE IF awaiting /\ \E i \in 1..n : e[i] = "resolved"
      THEN /\ pc' = "generating"
           /\ progressStream' = sendProgress(s, EvGenerating)
           /\ res' = rs
           /\ calls' = [c EXCEPT !.generate = @ + 1]
           /\ analysisArgs' =
                 [data |-> [i \in 1..n |-> d[i]],
                  sections |-> b.reportSections, format |-> b.reportFormat,
                  eventsSent |-> Len(sendProgress(s, EvGenerating))]
      ELSE /\ pc' = IF awaiting THEN "fanout" ELSE pc
           /\ progressStream' = s
           /\ res' = rs
           /\ calls' = c
           /\ analysisArgs' = IF awaiting THEN NoArgs ELSE analysisArgs

\* The continuation of `await Promise.all(...)`, run in the same turn as the
\* callback that settles it: the first rejected callback rejects the
\* Promise.all and control reaches the catch block; when the last callback
\* has resolved, the handler sends 'Generating AI analysis...' and calls
\* generateAIAnalysis.  awaiting says whether the handler is at that await;
\* e, d, s, c are the entries, data, stream and call counts after the
\* callback's own step, b the body, rs the calls made on res so far.
AfterCallback(awaiting, e, d, s, c, b, rs) ==
  LET n == Len(b.competitors)
  IN  IF awaiting /\ \E i \in 1..n : e[i] = "rejected"
      THEN /\ pc' = "error"
           /\ progressStream' = s
           /\ res' = Append(rs, Res500)
           /\ calls' = c
           /\ analysisArgs' = NoArgs
      ELSE IF awaiting /\ \A i \in 1..n : e[i] = "resolved"
      THEN /\ pc' = "generating"
           /\ progressStream' = sendProgress(s, EvGenerating)
           /\ res' = rs
           /\ calls' = [c EXCEPT !.generate = @ + 1]
           /\ analysisArgs' =
                 [data |-> [i \in 1..n |-> d[i]],
                  sections |-> b.reportSections, format |-> b.reportFormat,
                  eventsSent |-> Len(sendProgress(s, EvGenerating))]
      ELSE /\ pc' = IF awaiting THEN "fanout" ELSE pc
           /\ progressStream' = s
           /\ res' = rs
           /\ calls' = c
           /\ analysisArgs' = IF awaiting THEN NoArgs ELSE analysisArgs

\* handler, method other than POST: the else branch.
NotAllowed ==
  /\ Arrives
  /\ \E m \in Methods \ {"POST"} : method' = m
  /\ readIssuedAt' = [i \in Slots |-> 0]
  /\ body' = NoBody
  /\ res' = <<ResAllow, Res405>>
  /\ pc' = "rejected"
  /\ entry' = [i \in Slots |-> "none"]
  /\ cachedData' = [i \in Slots |-> Null]
  /\ scrapedData' = [i \in Slots |-> NoRecord]
  /\ competitorData' = [i \in Slots |-> NoRecord]
  /\ progressStream' = <<>>
  /\ calls' = NoCalls
  /\ cacheWrites' = [i \in Slots |-> NoWrite]
  /\ analysisArgs' = NoArgs
  /\ analysisResult' = NoText
  /\ pdfArgs' = NoPdfArgs
  /\ UNCHANGED <<now, cache>>

\* handler, POST whose body has no competitors: the stream is set up and
\* 'Starting report generation...' is sent; competitors.map then throws a
\* TypeError, caught by the catch block.
PostWithoutCompetitors ==
  /\ Arrives
  /\ method' = "POST"
  /\ readIssuedAt' = [i \in Slots |-> 0]
  /\ \E b \in {x \in Bodies : ~x.hasCompetitors} : body' = b
  /\ progressStream' = sendProgress(<<>>, EvStarting)
  /\ res' = <<ResSSE, Res500>>
  /\ pc' = "error"
  /\ entry' = [i \in Slots |-> "none"]
  /\ cachedData' = [i \in Slots |-> Null]
  /\ scrapedData' = [i \in Slots |-> NoRecord]
  /\ competitorData' = [i \in Slots |-> NoRecord]
  /\ calls' = NoCalls
  /\ cacheWrites' = [i \in Slots |-> NoWrite]
  /\ analysisArgs' = NoArgs
  /\ analysisResult' = NoText
  /\ pdfArgs' = NoPdfArgs
  /\ UNCHANGED <<now, cache>>

\* handler, POST: from the start to the first await.  The stream is set up,
\* 'Starting report generation...' is sent, and competitors.map runs every
\* callback up to its `await getCachedData`: each sends its 'Analyzing
\* competitor' event and issues its cache read.  With an empty list
\* Promise.all resolves at once.
Post ==
  /\ Arrives
  /\ method' = "POST"
  /\ \E b \in {x \in Bodies : x.hasCompetitors} :
       LET n == Len(b.competitors)
           e == [i \in Slots |-> IF i <= n THEN "reading" ELSE "none"]
           d == [i \in Slots |-> NoRecord]
           s == sendProgress(<<>>, EvStarting) \o AnalyzingEvents(1, n)
           c == [NoCalls EXCEPT !.cacheReads = [i \in Slots |-> IF i <= n THEN 1 ELSE 0]]
       IN  /\ body' = b
           /\ readIssuedAt' = [i \in Slots |-> IF i <= n THEN IssuedAt(i, n) ELSE 0]
           /\ entry' = e
           /\ competitorData' = d
           /\ AfterCallback(TRUE, e, d, s, c, b, <<ResSSE>>)
  /\ cachedData' = [i \in Slots |-> Null]
  /\ scrapedData' = [i \in Slots |-> NoRecord]
  /\ cacheWrites' = [i \in Slots |-> NoWrite]
  /\ analysisResult' = NoText
  /\ pdfArgs' = NoPdfArgs
  /\ UNCHANGED <<now, cache>>

\* A map callback that calls scrapeWebsite whatever the cache read returned.
CacheReadReturnsThenScrapes(i) ==
  /\ entry[i] = "reading"
  /\ cachedData' = [cachedData EXCEPT ![i] =
        getCachedData(cache, cacheKey(body.competitors[i]), now)]
  /\ entry' = [entry EXCEPT ![i] = "scraping"]
  /\ calls' = [calls EXCEPT !.adapter[i] = @ + 1]
  /\ UNCHANGED <<now, cache, pc, method, body, readIssuedAt, scrapedData, competitorData,
                 progressStream, res, cacheWrites, analysisArgs, analysisResult,
                 pdfArgs, cacheWasEmpty, previous>>

\* A map callback after `await getCachedData(cacheKey)`: on a truthy value
\* it sends 'Using cached data for ...' and returns JSON.parse(cachedData)
\* (a SyntaxError rejects it); otherwise it calls scrapeWebsite.
CacheReadReturns(i) ==
  /\ entry[i] = "reading"
  /\ LET competitor == body.competitors[i]
         got == getCachedData(cache, cacheKey(competitor), now)
         parsed == JSONparse(got.text)
     IN  /\ cachedData' = [cachedData EXCEPT ![i] = got]
         /\ IF Truthy(got)
            THEN LET e == [entry EXCEPT ![i] = IF parsed.ok THEN "resolved" ELSE "rejected"]
                     d == [competitorData EXCEPT ![i] =
                             IF parsed.ok THEN AsRecord(parsed.members) ELSE @]
                     s == sendProgress(progressStream, EvUsingCached(competitor))
                 IN  /\ entry' = e
                     /\ competitorData' = d
                     /\ AfterCallback(pc = "fanout", e, d, s, calls, body, res)
            ELSE /\ entry' = [entry EXCEPT ![i] = "scraping"]
                 /\ calls' = [calls EXCEPT !.adapter[i] = @ + 1]
                 /\ UNCHANGED <<competitorData, pc, progressStream, res, analysisArgs>>
  /\ UNCHANGED <<now, cache, method, body, readIssuedAt, scrapedData, cacheWrites,
                 analysisResult, pdfArgs, cacheWasEmpty, previous>>

\* A step of a map callback that throws: its promise is rejected.
Reject(i) ==
  LET e == [entry EXCEPT ![i] = "rejected"]
  IN  /\ entry' = e
      /\ AfterCallback(pc = "fanout", e, competitorData, progressStream, calls, body, res)
      /\ UNCHANGED <<now, cache, method, body, readIssuedAt, cachedData, scrapedData, competitorData,
                     cacheWrites, analysisResult, pdfArgs, cacheWasEmpty, previous>>

\* A callback that issues its cache read again when redis.get rejects.
CacheReadRetries(i) ==
  /\ entry[i] = "reading"
  /\ calls' = [calls EXCEPT !.cacheReads[i] = @ + 1]
  /\ UNCHANGED <<now, cache, pc, method, body, readIssuedAt, entry, cachedData, scrapedData,
                 competitorData, progressStream, res, cacheWrites, analysisArgs,
                 analysisResult, pdfArgs, cacheWasEmpty, previous>>

\* redis.get rejects (store unreachable).
CacheReadFails(i) ==
  /\ entry[i] = "reading"
  /\ Reject(i)

\* After `await scrapeWebsite(...)`: the callback issues the cache write.
ScrapeReturns(i) ==
  /\ entry[i] = "scraping"
  /\ LET competitor == body.competitors[i]
     IN  /\ scrapedData' = [scrapedData EXCEPT ![i] = scrapeWebsite(competitor, now)]
         /\ cacheWrites' = [cacheWrites EXCEPT ![i] =
               [key |-> cacheKey(competitor), expirationInSeconds |-> CacheSeconds,
                storedAt |-> -1]]
  /\ entry' = [entry EXCEPT ![i] = "writing"]
  /\ calls' = [calls EXCEPT !.cacheSets[i] = @ + 1]
  /\ UNCHANGED <<now, cache, pc, method, body, readIssuedAt, cachedData, competitorData,
                 progressStream, res, analysisArgs, analysisResult, pdfArgs,
                 cacheWasEmpty, previous>>

\* axios.get rejects (site unreachable).
ScrapeFails(i) ==
  /\ entry[i] = "scraping"
  /\ Reject(i)

\* The store executes SET key value EX 86400 and the callback, after
\* `await setCachedData(...)`, returns scrapedData.
CacheWriteReturns(i) ==
  /\ entry[i] = "writing"
  /\ cache' = setCachedData(cache, cacheWrites[i].key, JSONstringify(scrapedData[i]),
                            cacheWrites[i].expirationInSeconds, now)
  /\ cacheWrites' = [cacheWrites EXCEPT ![i].storedAt = now]
  /\ LET e == [entry EXCEPT ![i] = "resolved"]
         d == [competitorData EXCEPT ![i] = scrapedData[i]]
     IN  /\ entry' = e
         /\ competitorData' = d
         /\ AfterCallback(pc = "fanout", e, d, progressStream, calls, body, res)
  /\ UNCHANGED <<now, method, body, readIssuedAt, cachedData, scrapedData, analysisResult,
                 pdfArgs, cacheWasEmpty, previous>>

\* redis.set rejects (store unreachable): nothing is stored.
CacheWriteFails(i) ==
  /\ entry[i] = "writing"
  /\ Reject(i)

\* After `await generateAIAnalysis(...)`: 'Creating PDF report...' is sent
\* and generatePDF is called.  Its executor runs within the call: when it
\* throws, the promise is already rejected and the catch block runs in the
\* same turn; when it loops, the turn never ends; otherwise the promise is
\* pending until the document's 'end' event.
AnalysisReturns ==
  /\ pc = "generating"
  /\ \E text \in Texts :
       /\ analysisResult' = text
       /\ pdfArgs' = [analysisResult |-> text, sections |-> body.reportSections,
                      format |-> body.reportFormat,
                      eventsSent |-> Len(sendProgress(progressStream, EvCreating))]
       /\ LET outcome == pdfOutcome(text, body.reportFormat)
          IN  /\ pc' = CASE outcome = "rejects" -> "error"
                         [] outcome = "loops" -> "looping"
                         [] OTHER -> "layout"
              /\ res' = IF outcome = "rejects" THEN Append(res, Res500) ELSE res
  /\ progressStream' = sendProgress(progressStream, EvCreating)
  /\ calls' = [calls EXCEPT !.pdf = @ + 1]
  /\ UNCHANGED <<now, cache, method, body, readIssuedAt, entry, cachedData, scrapedData,
                 competitorData, cacheWrites, analysisArgs, cacheWasEmpty, previous>>

\* The completion request rejects (service error): the catch block.
AnalysisFails ==
  /\ pc = "generating"
  /\ pc' = "error"
  /\ res' = Append(res, Res500)
  /\ UNCHANGED <<now, cache, method, body, readIssuedAt, entry, cachedData, scrapedData,
                 competitorData, progressStream, calls, cacheWrites, analysisArgs,
                 analysisResult, pdfArgs, cacheWasEmpty, previous>>

\* After `await generatePDF(...)`: 'Report generation complete!', the end
\* of the stream, then the PDF headers and body.
PdfResolves ==
  /\ pc = "layout"
  /\ LET pdfBuffer == BufferLength(analysisResult)
     IN  res' = res \o <<ResPDFHead(pdfBuffer), ResEnd(pdfBuffer)>>
  /\ progressStream' = Append(sendProgress(progressStream, EvComplete), EndOfStream)
  /\ pc' = "done"
  /\ UNCHANGED <<now, cache, method, body, readIssuedAt, entry, cachedData, scrapedData,
                 competitorData, calls, cacheWrites, analysisArgs, analysisResult,
                 pdfArgs, cacheWasEmpty, previous>>

\* Time passes.
Tick ==
  /\ now < MaxTicks * TickSeconds
  /\ now' = now + TickSeconds
  /\ UNCHANGED <<cache, pc, method, body, readIssuedAt, entry, cachedData, scrapedData,
                 competitorData, progressStream, res, calls, cacheWrites,
                 analysisArgs, analysisResult, pdfArgs, cacheWasEmpty, previous>>

\* One turn of the event loop.
HandlerNext ==
  \/ NotAllowed
  \/ PostWithoutCompetitors
  \/ Post
  \/ \E i \in Slots : CacheReadReturns(i)
  \/ \E i \in Slots : CacheReadFails(i)
  \/ \E i \in Slots : ScrapeReturns(i)
  \/ \E i \in Slots : ScrapeFails(i)
  \/ \E i \in Slots : CacheWriteReturns(i)
  \/ \E i \in Slots : CacheWriteFails(i)
  \/ AnalysisReturns
  \/ AnalysisFails
  \/ PdfResolves
  \/ Tick
(* --------------------------- generatePDF ------------------------------ *)

\* Lengths are in thousandths of a PDF point.
\* new PDFDocument({ size: 'A4', margin: 50 }): an A4 page is 841.89 high.
PageHeight == 841890
Margin == 50000
\* ensureSpace: doc.page.height - 50
BottomReserve == 50000
\* ensureSpace(100) before a header line, ensureSpace(20) before a body line
HeaderSpace == 100000
BodySpace == 20000
\* the footer is written at doc.page.height - 50
FooterOffset == 50000
\* while (doc.bufferedPageRange().count < 15)
MinDetailedPages == 15

\* Strings are sequences of characters.  Section names that overlap, as
\* "Market" and "Market Overview" do.
Market == <<"M">>
MarketOverview == <<"M", "O">>
SectionNames == {Market, MarketOverview}
\* Lines of the narrative: empty, a section name, a section name with more
\* text after it, and text that names no section.
LineTexts == {<<>>, Market, MarketOverview, <<"M", "O", "x">>, <<"x">>}

\* A line and the number of rows it fills at the page width.
Lines ==
  {[chars |-> <<>>, rows |-> 0]}
  \cup [chars : LineTexts \ {<<>>}, rows : {1, LongRows}]

\* analysisResult.split('\n') is never empty: the empty text is one empty line.
ContentLineLists == SeqsUpTo(Lines, MaxLines) \ {<<>>}
SectionLists == SeqsUpTo(SectionNames, MaxSections)

\* line.includes(section): section occurs in line as a substring.
Includes(hay, needle) ==
  \E k \in 0..(Len(hay) - Len(needle)) :
    \A j \in 1..Len(needle) : hay[k + j] = needle[j]

\* A header test with containment either way.
IsHeaderSymmetric(line, sects) ==
  \E k \in 1..Len(sects) : Includes(line, sects[k]) \/ Includes(sects[k], line)

\* sections.some(section => line.includes(section))
IsHeader(line, sects) == \E k \in 1..Len(sects) : Includes(line, sects[k])

\* sections.findIndex(s => s.includes(line)): -1 when there is none.
FindIndex(line, sects) ==
  LET hits == {k \in 1..Len(sects) : Includes(sects[k], line)}
  IN  IF hits = {} THEN -1 ELSE (CHOOSE k \in hits : \A j \in hits : k <= j) - 1

\* The document.  PDFDocument is created without bufferPages, so addPage
\* first flushes the pages buffered so far: the buffer holds the current
\* page alone, and bufferedPageRange().count is the length of the buffer.
\* pageCount is the number of pages of the document, page the index of the
\* current page, y the vertical cursor.
NewDoc ==
  [y |-> Margin, pageCount |-> 1, bufferStart |-> 0, bufferLen |-> 1, page |-> 0]

addPage(d) ==
  [d EXCEPT !.bufferStart = d.bufferStart + d.bufferLen, !.bufferLen = 1,
            !.pageCount = d.pageCount + 1, !.page = d.pageCount, !.y = Margin]

bufferedPageRange(d) == [start |-> d.bufferStart, count |-> d.bufferLen]

\* switchToPage(n) throws unless page n is in the buffer.
CanSwitchToPage(d, n) == d.bufferStart <= n /\ n < d.bufferStart + d.bufferLen
switchToPage(d, n) == [d EXCEPT !.page = n]

\* Height of a row of text at a font size (Helvetica: 1.156 of the size).
LineHeight(fontSize) == fontSize * 1156
\* doc.page.maxY(): the bottom margin.
maxY == PageHeight - Margin

\* A helper that never adds a page.
ensureSpaceNever(d, neededSpace) == d

\* ensureSpace(neededSpace)
ensureSpace(d, neededSpace) ==
  IF d.y + neededSpace > PageHeight - BottomReserve THEN addPage(d) ELSE d

RECURSIVE textRows(_, _, _)
\* The rows of a text, each continued on a new page when it does not fit.
textRows(d, rows, fontSize) ==
  IF rows = 0 THEN d
  ELSE LET d1 == IF d.y + LineHeight(fontSize) > maxY THEN addPage(d) ELSE d
       IN  textRows([d1 EXCEPT !.y = @ + LineHeight(fontSize)], rows - 1, fontSize)

\* Where doc.text starts writing: a text whose first row would pass the
\* bottom margin starts on a new page.
textStart(d, fontSize) ==
  IF d.y + LineHeight(fontSize) > maxY THEN addPage(d) ELSE d

\* doc.fontSize(n).text(...) of so many rows at the cursor.
text(d, rows, fontSize) == textRows(textStart(d, fontSize), rows, fontSize)

\* doc.text(..., x, y): the cursor is set first.
textAt(d, y, rows, fontSize) == text([d EXCEPT !.y = y], rows, fontSize)

\* doc.moveDown(num / den) at a font size.
moveDown(d, num, den, fontSize) ==
  [d EXCEPT !.y = @ + (LineHeight(fontSize) * num) \div den]

VARIABLES
  contentLines,  \* analysisResult.split('\n')
  sections,      \* the sections argument
  format,        \* the format argument
  pdfPc,         \* where generatePDF is
  doc,           \* the PDFDocument
  written,       \* the texts written, in order, each with its page
  lineIndex,     \* the content line the forEach is at
  overflows,     \* per content line: whether ensureSpace added a page before it
  pages,         \* let pages = doc.bufferedPageRange().count
  footerIndex,   \* the i of the page-number loop
  contentPages   \* the page count when the content pass ended

pdfVars ==
  <<contentLines, sections, format, pdfPc, doc, written, lineIndex, overflows, pages,
    footerIndex, contentPages>>

vars == <<handlerVars, pdfVars>>

\* A text written: what it is, the page it starts on and the cursor there.
Written(kind, d, chars, link, destination, bullet, pageNo, pageOf) ==
  [kind |-> kind, page |-> d.page, y |-> d.y, chars |-> chars, link |-> link,
   destination |-> destination, bullet |-> bullet, pageNo |-> pageNo, pageOf |-> pageOf]

\* No generatePDF call is followed.
PdfIdle ==
  /\ contentLines = <<>>
  /\ sections = <<>>
  /\ format = ""
  /\ pdfPc = "idle"
  /\ doc = NewDoc
  /\ written = <<>>
  /\ lineIndex = 0
  /\ overflows = <<>>
  /\ pages = 0
  /\ footerIndex = 0
  /\ contentPages = 0

\* generatePDF is called: the document is created, with its first page.
PdfCalled ==
  /\ contentLines \in ContentLineLists
  /\ sections \in SectionLists
  /\ format \in Formats
  /\ pdfPc = "title"
  /\ doc = NewDoc
  /\ written = <<>>
  /\ lineIndex = 1
  /\ overflows = <<>>
  /\ pages = 0
  /\ footerIndex = 0
  /\ contentPages = 0

\* doc.fontSize(24).text('Competitive Intelligence Report', ...); doc.moveDown()
Title ==
  /\ pdfPc = "title"
  /\ LET at == textStart(doc, 24)
     IN  /\ written' = Append(written, Written("title", at, <<>>, 0, -1, FALSE, 0, 0))
         /\ doc' = moveDown(text(doc, 1, 24), 1, 1, 24)
  /\ pdfPc' = "toc"
  /\ UNCHANGED <<contentLines, sections, format, lineIndex, overflows, pages, footerIndex,
                 contentPages>>

RECURSIVE tocEntriesLinkingIndex(_, _, _)
\* The entries with link `#section${index}`, the index not raised by one.
tocEntriesLinkingIndex(dw, sects, k) ==
  IF k > Len(sects) THEN dw
  ELSE LET at == textStart(dw.doc, 12)
       IN  tocEntriesLinkingIndex([doc |-> text(dw.doc, 1, 12),
                       written |-> Append(dw.written,
                          Written("toc", at, sects[k], k - 1, -1, FALSE, 0, 0))],
                      sects, k + 1)

RECURSIVE tocEntries(_, _, _)
\* sections.forEach((section, index) => doc.fontSize(12).text(section,
\* { link: `#section${index + 1}` })): the document and the texts written
\* after the entries from index k on.
tocEntries(dw, sects, k) ==
  IF k > Len(sects) THEN dw
  ELSE LET at == textStart(dw.doc, 12)
       IN  tocEntries([doc |-> text(dw.doc, 1, 12),
                       written |-> Append(dw.written,
                          Written("toc", at, sects[k], k, -1, FALSE, 0, 0))],
                      sects, k + 1)

\* The table of contents, unless the format is presentation.
TableOfContents ==
  /\ pdfPc = "toc"
  /\ IF format # "presentation"
     THEN LET at == textStart(doc, 18)
              headed == moveDown(text(doc, 1, 18), 1, 2, 18)
              done == tocEntries(
                        [doc |-> headed,
                         written |-> Append(written,
                            Written("tocTitle", at, <<>>, 0, -1, FALSE, 0, 0))],
                        sections, 1)
          IN  /\ doc' = moveDown(done.doc, 1, 1, 12)
              /\ written' = done.written
     ELSE UNCHANGED <<doc, written>>
  /\ pdfPc' = "content"
  /\ UNCHANGED <<contentLines, sections, format, lineIndex, overflows, pages, footerIndex,
                 contentPages>>

\* One turn of contentLines.forEach: a header line or a body line.
ContentLine ==
  /\ pdfPc = "content"
  /\ lineIndex <= Len(contentLines)
  /\ LET line == contentLines[lineIndex]
         last == lineIndex = Len(contentLines)
     IN  /\ IF IsHeader(line.chars, sections)
            THEN LET spaced == ensureSpace(doc, HeaderSpace)
                     at == textStart(spaced, 18)
                     after == moveDown(text(spaced, line.rows, 18), 1, 1, 18)
                 IN  /\ doc' = after
                     /\ written' = Append(written,
                           Written("header", at, line.chars, 0,
                                   FindIndex(line.chars, sections) + 1, FALSE, 0, 0))
                     /\ contentPages' = IF last THEN after.pageCount ELSE contentPages
                     /\ overflows' = Append(overflows, spaced.pageCount > doc.pageCount)
            ELSE LET spaced == ensureSpace(doc, BodySpace)
                     size == IF format = "presentation" THEN 14 ELSE 12
                     at == textStart(spaced, size)
                     after == text(spaced, line.rows, size)
                 IN  /\ doc' = after
                     /\ written' = Append(written,
                           Written("body", at, line.chars, 0, -1,
                                   format = "presentation", 0, 0))
                     /\ contentPages' = IF last THEN after.pageCount ELSE contentPages
                     /\ overflows' = Append(overflows, spaced.pageCount > doc.pageCount)
         /\ pdfPc' = IF last THEN "padding" ELSE "content"
  /\ lineIndex' = lineIndex + 1
  /\ UNCHANGED <<contentLines, sections, format, pages, footerIndex>>

\* One turn of while (doc.bufferedPageRange().count < 15) doc.addPage()
PadPage ==
  /\ pdfPc = "padding"
  /\ format = "detailed"
  /\ bufferedPageRange(doc).count < MinDetailedPages
  /\ doc.pageCount < MaxPages
  /\ doc' = addPage(doc)
  /\ UNCHANGED <<contentLines, sections, format, pdfPc, written, lineIndex, overflows, pages,
                 footerIndex, contentPages>>

\* The padding is over, or there is none: let pages = doc.bufferedPageRange().count
PadDone ==
  /\ pdfPc = "padding"
  /\ format = "detailed" => bufferedPageRange(doc).count >= MinDetailedPages
  /\ pages' = bufferedPageRange(doc).count
  /\ footerIndex' = 0
  /\ pdfPc' = "footers"
  /\ UNCHANGED <<contentLines, sections, format, doc, written, lineIndex, overflows,
                 contentPages>>

\* One turn of the page-number loop: doc.switchToPage(i), which throws when
\* page i has been flushed (the executor then rejects the promise), and the
\* footer text at the bottom margin.
Footer ==
  /\ pdfPc = "footers"
  /\ footerIndex < pages
  /\ IF CanSwitchToPage(doc, footerIndex)
     THEN LET on == switchToPage(doc, footerIndex)
              at == textStart([on EXCEPT !.y = PageHeight - FooterOffset], 10)
          IN  /\ doc' = textAt(on, PageHeight - FooterOffset, 1, 10)
              /\ written' = Append(written,
                    Written("footer", at, <<>>, 0, -1, FALSE, footerIndex + 1, pages))
              /\ footerIndex' = footerIndex + 1
              /\ UNCHANGED pdfPc
     ELSE /\ pdfPc' = "rejected"
          /\ UNCHANGED <<doc, written, footerIndex>>
  /\ UNCHANGED <<contentLines, sections, format, lineIndex, overflows, pages, contentPages>>

\* doc.end(): the 'end' event resolves the promise with the buffer.
EndDocument ==
  /\ pdfPc = "footers"
  /\ footerIndex >= pages
  /\ pdfPc' = "resolved"
  /\ UNCHANGED <<contentLines, sections, format, doc, written, lineIndex, overflows, pages,
                 footerIndex, contentPages>>

PdfNext ==
  \/ Title
  \/ TableOfContents
  \/ ContentLine
  \/ PadPage
  \/ PadDone
  \/ Footer
  \/ EndDocument

(* --------------------------- specifications --------------------------- *)

Init == HandlerInit /\ PdfIdle
Next == HandlerNext /\ UNCHANGED pdfVars
Spec == Init /\ [][Next]_vars

InitPDF == HandlerInit /\ PdfCalled
NextPDF == PdfNext /\ UNCHANGED handlerVars
SpecPDF == InitPDF /\ [][NextPDF]_vars
(* ------------------------------- claims ------------------------------- *)

\* The formats the form offers.
RecognizedFormats == {"detailed", "summary", "presentation"}

\* The data frames of a stream: everything pushed but the closing null.
ProgressEvents(stream) == SelectSeq(stream, LAMBDA e : e # EndOfStream)

\* The list entries of the request whose cache read returned a value.
CacheHits == {i \in 1..Len(body.competitors) : Truthy(cachedData[i])}

\* A POST with a non-empty competitor list and a format the form offers.
ValidRequest ==
  /\ method = "POST"
  /\ body.hasCompetitors
  /\ Len(body.competitors) > 0
  /\ body.reportFormat \in RecognizedFormats

\* C1 (as amended): a request that reaches the end of the pipeline has sent
\* exactly N + 4 + H progress events, N the length of the competitor list
\* and H the number of entries served from the cache: 'Starting report
\* generation...', then 'Analyzing competitor i of N' for i = 1..N in list
\* order, then one 'Using cached data for <competitor>' per cache hit, then
\* 'Generating AI analysis...', 'Creating PDF report...', 'Report generation
\* complete!', and then the stream is closed.
C1_EventCountAndOrder ==
  pc = "done" =>
    LET n == Len(body.competitors)
        h == Cardinality(CacheHits)
        events == ProgressEvents(progressStream)
    IN  /\ Len(events) = n + 4 + h
        /\ events[1] = Event("Starting report generation...", 0, 0, "")
        /\ \A i \in 1..n : events[1 + i] = Event("Analyzing competitor", i, n, "")
        /\ \A k \in 1..h : \E i \in CacheHits :
              events[1 + n + k] = Event("Using cached data for", 0, 0, body.competitors[i])
        /\ \A i \in CacheHits : \E k \in 1..h :
              events[1 + n + k] = Event("Using cached data for", 0, 0, body.competitors[i])
        /\ events[n + h + 2] = Event("Generating AI analysis...", 0, 0, "")
        /\ events[n + h + 3] = Event("Creating PDF report...", 0, 0, "")
        /\ events[n + h + 4] = Event("Report generation complete!", 0, 0, "")
        /\ progressStream = Append(events, EndOfStream)

\* C1, a case: a list of two, one entry served from the cache, the other
\* fetched; the request has reached the end of the pipeline.
C1_OneHitOneMiss ==
  /\ pc = "done"
  /\ ValidRequest
  /\ Len(body.competitors) = 2
  /\ Cardinality(CacheHits) = 1

\* C1 as stated: a valid request that completes has sent exactly N + 3
\* events: N per-competitor events, then 'generating analysis', 'creating
\* document' and the completion event.
C1_AsStated ==
  (pc = "done" /\ ValidRequest) =>
    LET n == Len(body.competitors)
        events == ProgressEvents(progressStream)
    IN  /\ Len(events) = n + 3
        /\ \A i \in 1..n : events[i].message = "Analyzing competitor"
        /\ events[n + 1] = EvGenerating
        /\ events[n + 2] = EvCreating
        /\ events[n + 3] = EvComplete

\* C2 as stated: a POST whose format is not recognized, or whose competitor
\* list is empty or missing, is answered with a 4xx status before the event
\* stream is opened: no progress event, no cache read, no adapter call, no
\* narrative-generator call and no layout call.
C2_AsStated ==
  (/\ method = "POST"
   /\ \/ ~body.hasCompetitors
      \/ body.competitors = <<>>
      \/ body.reportFormat \notin RecognizedFormats) =>
    /\ progressStream = <<>>
    /\ calls = NoCalls
    /\ \A k \in 1..Len(res) : res[k] # ResSSE
    /\ StatusSent(res) \in 400..499

\* C2, a case: a request with format "xml" goes through the whole pipeline
\* and is answered with the document.
C2_XmlServed ==
  /\ pc = "done"
  /\ body.reportFormat = "xml"
  /\ Len(body.competitors) > 0
  /\ calls.pdf = 1

\* C3: for every list entry whose cache read returned a value, scrapeWebsite
\* is not called and no cache write is issued by that entry, in any state of
\* the request; once the entry is resolved its record is the decoded cached
\* text (encoding it again gives the text read), and that record is the one
\* in the narrative generator's arguments.
C3_CacheHitSkipsAdapter ==
  \A i \in CacheHits :
    /\ calls.adapter[i] = 0
    /\ calls.cacheSets[i] = 0
    /\ cacheWrites[i] = NoWrite
    /\ entry[i] = "resolved"
    /\ JSONstringify(competitorData[i]) = cachedData[i].text
    /\ calls.generate > 0 => analysisArgs.data[i] = competitorData[i]

\* C3, a case: an entry was served from the cache, with a record that has
\* items in its lists, and the narrative generator has been called.
C3_HitPassedOn ==
  \E i \in CacheHits :
    /\ calls.generate = 1
    /\ Len(competitorData[i].productNames) = 2
    /\ analysisArgs.data[i].companyName = body.competitors[i]
\* The texts of one kind written so far, in order.
WrittenOf(kind) == SelectSeq(written, LAMBDA w : w.kind = kind)

\* The footers written on the page of index p.
FootersOn(p) == {k \in 1..Len(written) : written[k].kind = "footer" /\ written[k].page = p}

\* C4 as stated: for the detailed format the document returned has at least
\* 15 pages, blank pages being appended after the content pass until the
\* count is exactly 15 (so the padding never takes a document of at most 15
\* content pages beyond 15); for the other formats the page count when the
\* padding step is over is that of the content.
C4_AsStated ==
  /\ (format = "detailed" /\ pdfPc = "padding" /\ contentPages <= 15) =>
        doc.pageCount <= 15
  /\ (format = "detailed" /\ pdfPc = "resolved") => doc.pageCount >= 15
  /\ (format # "detailed" /\ pdfPc = "footers" /\ footerIndex = 0) =>
        doc.pageCount = contentPages

\* C4, a case: the empty text in the detailed format; the padding loop has
\* taken the document to 16 pages and its condition still holds.
C4_PaddingPastFifteen ==
  /\ format = "detailed"
  /\ contentLines = <<[chars |-> <<>>, rows |-> 0]>>
  /\ pdfPc = "padding"
  /\ doc.pageCount = 16
  /\ bufferedPageRange(doc).count < 15

\* C5 as stated: in the document returned, with N its final page count,
\* every page of index i in 0..N-1 carries exactly one footer, reading
\* 'Page i+1 of N', and the footer pass has not changed the page count.
C5_AsStated ==
  pdfPc = "resolved" =>
    /\ \A p \in 0..(doc.pageCount - 1) :
         /\ Cardinality(FootersOn(p)) = 1
         /\ \A k \in FootersOn(p) :
              written[k].pageNo = p + 1 /\ written[k].pageOf = doc.pageCount
    /\ format # "detailed" => doc.pageCount = contentPages

\* C5, a case: content of one page; the document returned has two pages,
\* the first without a footer, the second reading 'Page 1 of 1'.
C5_FooterOnAddedPage ==
  /\ pdfPc = "resolved"
  /\ contentPages = 1
  /\ doc.pageCount = 2
  /\ FootersOn(0) = {}
  /\ \E k \in FootersOn(1) : written[k].pageNo = 1 /\ written[k].pageOf = 1

\* C6: once the table-of-contents step is over, for a format other than
\* presentation there is exactly one entry per requested section, in the
\* order of the list, the entry of the section at index i (from 0) naming
\* that section and carrying the link #section<i+1>; for presentation there
\* is no entry and no table-of-contents heading.
C6_TableOfContents ==
  pdfPc \notin {"title", "toc"} =>
    LET toc == WrittenOf("toc")
    IN  IF format = "presentation"
        THEN toc = <<>> /\ WrittenOf("tocTitle") = <<>>
        ELSE /\ Len(toc) = Len(sections)
             /\ \A i \in 0..(Len(sections) - 1) :
                  toc[i + 1].chars = sections[i + 1] /\ toc[i + 1].link = i + 1

\* C6, a case: two different sections in a format with a table of contents,
\* the document returned.
C6_TwoEntries ==
  /\ pdfPc = "resolved"
  /\ format = "summary"
  /\ Len(sections) = 2
  /\ sections[1] # sections[2]
  /\ Len(WrittenOf("toc")) = 2
\* What SpecPDF establishes of a generatePDF call is what pdfOutcome gives
\* the handler: the detailed format never leaves the padding loop, content
\* of more than one page is rejected, anything else is resolved.
pdfOutcomeAgrees ==
  LET outcome == pdfOutcome([text |-> "", pages |-> contentPages], format)
  IN  /\ pdfPc = "resolved" => outcome = "resolves"
      /\ pdfPc = "rejected" => outcome = "rejects"
      /\ pdfPc = "footers" => outcome # "loops"
      /\ (pdfPc = "padding" /\ outcome = "loops") =>
            bufferedPageRange(doc).count < MinDetailedPages

\* The request is the one before, repeated while nothing that request stored
\* has expired: that request started with an empty store and got its
\* report, the list is the same, and 24 hours have not passed since the
\* earliest of its cache writes.
RepeatedBeforeExpiry ==
  /\ previous.completed
  /\ previous.cacheWasEmpty
  /\ method = "POST"
  /\ body.hasCompetitors
  /\ body.competitors = previous.competitors
  /\ \A j \in 1..Len(previous.competitors) :
       now < previous.cacheWrites[j].storedAt + 24 * 60 * 60

\* C7: a request repeated before the expiry makes no adapter call and no
\* cache write, and the record each resolved entry uses is equal, field by
\* field and item by item, to a record the request before obtained from the
\* adapter for the same identifier and stored.
C7_RepeatServedFromCache ==
  RepeatedBeforeExpiry =>
    \A i \in 1..Len(body.competitors) :
      /\ calls.adapter[i] = 0
      /\ calls.cacheSets[i] = 0
      /\ entry[i] = "resolved" =>
           \E j \in 1..Len(previous.competitors) :
             /\ previous.competitors[j] = body.competitors[i]
             /\ previous.cacheWrites[j].storedAt >= 0
             /\ competitorData[i] = previous.scrapedData[j]

\* C7, a case: a list of two different competitors repeated half a day
\* later, when their sites show something else, and served.
C7_RepeatedHalfADayLater ==
  /\ RepeatedBeforeExpiry
  /\ pc = "done"
  /\ Len(body.competitors) = 2
  /\ body.competitors[1] # body.competitors[2]
  /\ now = TickSeconds
  /\ \A i \in 1..2 : competitorData[i] # scrapeWebsite(body.competitors[i], now)

\* C8: no call is made twice for a list entry or for the request, a cache
\* write is issued only after the entry's adapter call has returned, and a
\* request that has reached the end of the pipeline has made exactly one
\* cache read per entry, for each entry that missed exactly one adapter call
\* and one cache write under competitor:<identifier> with expiry 86400
\* seconds, one narrative-generator call and one layout call.
C8_AttemptOnce ==
  /\ \A i \in Slots :
       /\ calls.cacheReads[i] <= 1
       /\ calls.adapter[i] <= calls.cacheReads[i]
       /\ calls.cacheSets[i] <= calls.adapter[i]
       /\ entry[i] \in {"reading", "scraping"} => calls.cacheSets[i] = 0
       /\ i > Len(body.competitors) => calls.cacheReads[i] = 0
  /\ calls.pdf <= calls.generate
  /\ calls.generate <= 1
  /\ pc = "done" =>
       /\ calls.generate = 1
       /\ calls.pdf = 1
       /\ \A i \in 1..Len(body.competitors) :
            /\ calls.cacheReads[i] = 1
            /\ IF i \in CacheHits
               THEN calls.adapter[i] = 0 /\ calls.cacheSets[i] = 0
               ELSE /\ calls.adapter[i] = 1
                    /\ calls.cacheSets[i] = 1
                    /\ cacheWrites[i].key = "competitor:" \o body.competitors[i]
                    /\ cacheWrites[i].expirationInSeconds = 86400
                    /\ cacheWrites[i].storedAt >= 0

\* C8, a case: a list of two, both entries missing the cache, the request
\* at the end of the pipeline.
C8_TwoMisses ==
  /\ pc = "done"
  /\ Len(body.competitors) = 2
  /\ CacheHits = {}
  /\ \A i \in 1..2 : calls.adapter[i] = 1

\* C9: a request whose method is not POST is answered by exactly two calls,
\* setHeader('Allow', ['POST']) and status(405).end(...), so that the status
\* sent is 405; no event stream is opened, no progress event is sent, and
\* no cache read, adapter call, cache write, narrative-generator call or
\* layout call is made.
C9_MethodNotAllowed ==
  method \notin {"POST", ""} =>
    /\ pc = "rejected"
    /\ Len(res) = 2
    /\ res[1].call = "setHeader" /\ res[1].type = "Allow: POST"
    /\ res[2].call = "status.end" /\ res[2].status = 405
    /\ StatusSent(res) = 405
    /\ progressStream = <<>>
    /\ calls = NoCalls
    /\ \A i \in Slots : entry[i] = "none" /\ cacheWrites[i] = NoWrite
    /\ analysisArgs = NoArgs
    /\ pdfArgs = NoPdfArgs

\* C9, a case: a GET arriving after a request that filled the cache.
C9_GetAfterReport ==
  /\ method = "GET"
  /\ pc = "rejected"
  /\ \E k \in Keys : cache[k].present

\* A PDF payload among the calls on the response.
PdfDelivered ==
  \E k \in 1..Len(res) : res[k].type \in {"application/pdf", "pdfBuffer"}

\* C10 as stated: when a list entry's cache read, adapter call or cache
\* write has failed, the narrative generator and the layout engine are not
\* called; a failed request delivers no PDF payload and its caller receives
\* a 500-class status with the generic message.
C10_AsStated ==
  /\ (\E i \in Slots : entry[i] = "rejected") =>
       calls.generate = 0 /\ calls.pdf = 0
  /\ pc = "error" =>
       /\ ~PdfDelivered
       /\ \E k \in 1..Len(res) :
            res[k].type = "An error occurred while generating the report"
       /\ StatusSent(res) \in 500..599

\* C10, the part that holds: a failed entry means no narrative-generator and
\* no layout call; a failed narrative-generator call means no layout call;
\* a failed request has made exactly one status(500).json call with the
\* generic message, as its last call on the response, and no PDF payload.
C10_PipelineAborts ==
  /\ (\E i \in Slots : entry[i] = "rejected") =>
       pc = "error" /\ calls.generate = 0 /\ calls.pdf = 0
  /\ (pc = "error" /\ analysisResult = NoText) => calls.pdf = 0
  /\ pc = "error" =>
       /\ ~PdfDelivered
       /\ res[Len(res)].status = 500
       /\ res[Len(res)].type = "An error occurred while generating the report"
       /\ Cardinality({k \in 1..Len(res) : res[k].call = "status.json"}) = 1
  /\ PdfDelivered => pc = "done"

\* C10, the part that holds: while a request is being served, whatever has
\* been pushed on the progress stream stays on it.
C10_EventsKept ==
  [][(pc \notin {"idle", "done", "error", "rejected"} \/ \E i \in Slots : Pending(i)) =>
       /\ Len(progressStream') >= Len(progressStream)
       /\ SubSeq(progressStream', 1, Len(progressStream)) = progressStream]_vars

\* C10, a case: a cache read failed after the event stream was opened with
\* status 200 and events were sent; the status(500).json call was made.
C10_FailedAfterStreamOpened ==
  /\ pc = "error"
  /\ \E i \in Slots : entry[i] = "rejected" /\ calls.adapter[i] = 0
  /\ res = <<ResSSE, Res500>>
  /\ StatusSent(res) = 200
  /\ Len(progressStream) >= 2

\* The end-of-stream markers pushed on a stream.
EndMarkers(stream) == SelectSeq(stream, LAMBDA e : e = EndOfStream)

\* C11 as stated: once the event stream has been opened, when the handler
\* has finished, normally or in the catch block, the end-of-stream marker
\* has been pushed exactly once and is the last thing pushed.
C11_AsStated ==
  (method = "POST" /\ pc \in {"done", "error"}) =>
    /\ Len(EndMarkers(progressStream)) = 1
    /\ progressStream[Len(progressStream)] = EndOfStream

\* C11, a case: the handler has finished in the catch block, every callback
\* has settled, events were sent, and no end-of-stream marker was pushed.
C11_ErrorLeavesStreamOpen ==
  /\ pc = "error"
  /\ \A i \in Slots : ~Pending(i)
  /\ res = <<ResSSE, Res500>>
  /\ Len(progressStream) >= 3
  /\ EndMarkers(progressStream) = <<>>

\* The events every request with a list of n sends when nothing fails and
\* nothing is cached, and the closing marker.
StageEvents(n) ==
  <<Event("Starting report generation...", 0, 0, "")>>
  \o [i \in 1..n |-> Event("Analyzing competitor", i, n, "")]
  \o <<Event("Generating AI analysis...", 0, 0, ""),
       Event("Creating PDF report...", 0, 0, ""),
       Event("Report generation complete!", 0, 0, ""),
       EndOfStream>>

\* The 'Using cached data for ...' events of the entries served from the
\* cache, in list order.
CachedEventsInListOrder ==
  LET n == Len(body.competitors)
      all == [i \in 1..n |-> [hit |-> i \in CacheHits,
                              event |-> EvUsingCached(body.competitors[i])]]
      hits == SelectSeq(all, LAMBDA x : x.hit)
  IN  [k \in 1..Len(hits) |-> hits[k].event]

\* C12 (as amended): in every state of a POST request with a list of N, the
\* events at positions 2..N+1 of the stream are 'Analyzing competitor i of
\* N' for i = 1..N in list order; the event of entry i was on the stream
\* when the cache read of entry i was issued; the stream without its 'Using
\* cached data for ...' events is a prefix of the fixed stage sequence,
\* whatever the interleaving; and the 'Using cached data for ...' events,
\* one per cache read that has returned a value, come right after the N
\* per-competitor events.
C12_ListOrderAndFixedStages ==
  (method = "POST" /\ body.hasCompetitors) =>
    LET n == Len(body.competitors)
        h == Cardinality(CacheHits)
        staged == SelectSeq(progressStream,
                            LAMBDA e : e.message # "Using cached data for")
    IN  /\ Len(progressStream) >= 1 + n
        /\ \A i \in 1..n :
             /\ progressStream[1 + i] = Event("Analyzing competitor", i, n, "")
             /\ calls.cacheReads[i] = 1
             /\ readIssuedAt[i] >= 1 + i
        /\ Len(staged) <= Len(StageEvents(n))
        /\ staged = SubSeq(StageEvents(n), 1, Len(staged))
        /\ \A k \in 1..Len(progressStream) :
             progressStream[k].message = "Using cached data for"
               <=> (1 + n < k /\ k <= 1 + n + h)

\* C12, a case: both entries of a list of two different competitors were
\* served from the cache, the events in list order.
C12_HitsInListOrder ==
  /\ pc = "done"
  /\ Len(body.competitors) = 2
  /\ body.competitors[1] # body.competitors[2]
  /\ CacheHits = {1, 2}
  /\ progressStream[4] = EvUsingCached(body.competitors[1])
  /\ progressStream[5] = EvUsingCached(body.competitors[2])

\* C12 as stated: the full sequence of progress events of a request is the
\* same under every completion order of the concurrent resolutions: for a
\* request that has completed it is the stage sequence with the events of
\* the cached entries in list order (the order C12_HitsInListOrder reaches).
C12_AsStated ==
  (pc = "done" /\ ValidRequest) =>
    LET n == Len(body.competitors)
    IN  progressStream =
          SubSeq(StageEvents(n), 1, 1 + n) \o CachedEventsInListOrder
          \o SubSeq(StageEvents(n), 2 + n, 5 + n)

\* C13: when generateAIAnalysis has been called, every one of the N entries
\* had resolved, its arguments are the N records in list order (the record
\* at index i is that of the competitor at index i), the requested sections
\* and the format, and 'Generating AI analysis...' was the last event on
\* the stream when it was called; when generatePDF has been called,
\* generateAIAnalysis had returned, its arguments are the text returned,
\* the requested sections and the format, and 'Creating PDF report...' was
\* the last event on the stream when it was called.  Neither is called
\* otherwise.
C13_SequentialStages ==
  LET n == Len(body.competitors)
  IN  /\ calls.generate = 0 => analysisArgs = NoArgs /\ calls.pdf = 0
      /\ calls.pdf = 0 => pdfArgs = NoPdfArgs
      /\ calls.generate > 0 =>
           /\ \A i \in 1..n : entry[i] = "resolved"
           /\ analysisArgs.data = [i \in 1..n |-> competitorData[i]]
           /\ \A i \in 1..n : analysisArgs.data[i].companyName = body.competitors[i]
           /\ analysisArgs.sections = body.reportSections
           /\ analysisArgs.format = body.reportFormat
           /\ progressStream[analysisArgs.eventsSent] =
                Event("Generating AI analysis...", 0, 0, "")
      /\ calls.pdf > 0 =>
           /\ analysisResult \in Texts
           /\ pdfArgs.analysisResult = analysisResult
           /\ pdfArgs.sections = body.reportSections
           /\ pdfArgs.format = body.reportFormat
           /\ pdfArgs.eventsSent = analysisArgs.eventsSent + 1
           /\ progressStream[pdfArgs.eventsSent] =
                Event("Creating PDF report...", 0, 0, "")

\* C13, a case: a list of two different competitors, the second resolved
\* (its cache write stored) before the first, and generatePDF called.
C13_SecondResolvedFirst ==
  /\ calls.pdf = 1
  /\ Len(body.competitors) = 2
  /\ body.competitors[1] # body.competitors[2]
  /\ cacheWrites[2].storedAt >= 0
  /\ cacheWrites[2].storedAt < cacheWrites[1].storedAt

\* C14 as stated: on a request that has completed, the completion event is
\* the last progress event and the end-of-stream marker follows it; the
\* layout call has returned; and the response the caller is given is the
\* PDF payload: Content-Type application/pdf with Content-Length the length
\* of the buffer generatePDF returned, then the buffer.
C14_AsStated ==
  pc = "done" =>
    LET len == BufferLength(analysisResult)
        last == Len(progressStream)
    IN  /\ progressStream[last] = EndOfStream
        /\ progressStream[last - 1] = EvComplete
        /\ calls.pdf = 1
        /\ res[Len(res)] = ResEnd(len)
        /\ HeadSent(res).type = "application/pdf"
        /\ HeadSent(res).length = len

\* C14, the part that holds: on a request that has completed the stream
\* ends with the completion event and the marker, and the calls made on the
\* response are, in order, the event-stream head, the PDF head with the
\* buffer's length, and end(pdfBuffer).
C14_CallsInOrder ==
  pc = "done" =>
    LET len == BufferLength(analysisResult)
        last == Len(progressStream)
    IN  /\ progressStream[last] = EndOfStream
        /\ progressStream[last - 1] = EvComplete
        /\ calls.pdf = 1
        /\ res = <<ResSSE, ResPDFHead(len), ResEnd(len)>>

\* C14, a case: the request has completed with a buffer; the head written
\* first, and so the one the caller has, is the event stream's.
C14_PdfHeadAfterStreamHead ==
  /\ pc = "done"
  /\ ValidRequest
  /\ res[2] = ResPDFHead(BufferLength(analysisResult))
  /\ HeadSent(res) = ResSSE

\* C15 as stated: the handler leaves the fan-out stage, to go on or to
\* report failure, only when every callback has resolved or rejected: once
\* the error response has been made no callback of the request is pending.
C15_AsStated ==
  pc \in {"generating", "layout", "looping", "done", "error"} =>
    \A i \in Slots : ~Pending(i)

\* C15, a case: the cache read of the first entry was rejected and the
\* error response made while the cache read of the second entry is still
\* awaited: whatever that callback does next comes after the response.
C15_PendingAfterError ==
  /\ pc = "error"
  /\ res[Len(res)] = Res500
  /\ entry[1] = "rejected"
  /\ calls.adapter[1] = 0
  /\ entry[2] = "reading"

\* The indexes (from 1) of the requested sections that make a line a header:
\* those that occur in the line.
MatchedSections(line) == {j \in 1..Len(sections) : Includes(line, sections[j])}

\* C16 as stated: every header line written is registered under the anchor
\* section<k> with 1 <= k <= number of requested sections, k - 1 being the
\* earliest index of a requested section that matches the line, so that the
\* anchor is the link target of that section's table-of-contents entry.
C16_AsStated ==
  \A w \in 1..Len(written) :
    written[w].kind = "header" =>
      LET k == written[w].destination
          matched == MatchedSections(written[w].chars)
      IN  /\ 1 <= k /\ k <= Len(sections)
          /\ k \in matched
          /\ \A j \in matched : k <= j

\* C16, a case: the only requested section is "MO" and the line "MOx",
\* which contains it, was written as a header under the anchor section0.
C16_AnchorSectionZero ==
  /\ sections = <<MarketOverview>>
  /\ \E w \in 1..Len(written) :
       /\ written[w].kind = "header"
       /\ written[w].chars = <<"M", "O", "x">>
       /\ written[w].destination = 0

\* The content lines written so far, in order.
ContentWritten == SelectSeq(written, LAMBDA w : w.kind \in {"header", "body"})

\* C17 (as amended): the lines of the text are written one text each, in
\* order; a line is written as a header if and only if some requested
\* section occurs in it as a substring; every other line is a body line,
\* and a body line has the bullet prefix exactly when the format is
\* presentation (a header never has it).
C17_HeaderIffSectionInLine ==
  pdfPc \notin {"idle", "title", "toc"} =>
    /\ Len(ContentWritten) = lineIndex - 1
    /\ \A k \in 1..Len(ContentWritten) :
         LET w == ContentWritten[k]
             line == contentLines[k].chars
         IN  /\ w.chars = line
             /\ w.kind = "header" <=>
                  \E j \in 1..Len(sections) : Includes(line, sections[j])
             /\ w.bullet <=> (w.kind = "body" /\ format = "presentation")

\* C17, a case: the requested section is "MO"; the line "M", a substring of
\* it, was written as a body line, with a bullet in the presentation format.
C17_PartOfSectionNameIsBody ==
  /\ sections = <<MarketOverview>>
  /\ format = "presentation"
  /\ \E k \in 1..Len(ContentWritten) :
       /\ ContentWritten[k].chars = Market
       /\ ContentWritten[k].kind = "body"
       /\ ContentWritten[k].bullet

\* C17 as stated: a line is written as a header if and only if it is a
\* substring of some requested section or some requested section is a
\* substring of it.
C17_AsStated ==
  \A k \in 1..Len(ContentWritten) :
    ContentWritten[k].kind = "header" <=>
      \E j \in 1..Len(sections) :
        \/ Includes(ContentWritten[k].chars, sections[j])
        \/ Includes(sections[j], ContentWritten[k].chars)

\* The number of content lines before which ensureSpace added a page.
OverflowCount == Len(SelectSeq(overflows, LAMBDA o : o))

\* C18 (as amended): every header line is written with the cursor y at
\* y + 100 <= page height - 50 and every body line at y + 20 <= page height
\* - 50 (lengths in thousandths of a point); when ensureSpace found that not
\* to hold it added a page first and the line is written at the top margin
\* of the new page; and the page count is at least 1 plus the number of
\* those overflows, pages being added also by a text that runs past the
\* bottom margin.
C18_SpaceEnsured ==
  pdfPc # "idle" =>
    /\ Len(overflows) = Len(ContentWritten)
    /\ \A k \in 1..Len(ContentWritten) :
         LET w == ContentWritten[k]
             needed == IF w.kind = "header" THEN 100 * 1000 ELSE 20 * 1000
         IN  /\ w.y + needed <= 841890 - 50 * 1000
             /\ overflows[k] => (w.y = 50 * 1000 /\ w.page >= 1)
    /\ doc.pageCount >= 1 + OverflowCount
    /\ pdfPc \in {"padding", "footers", "resolved", "rejected"} =>
         contentPages >= 1 + OverflowCount

\* C18, a case: a header line for which 100 points were not left on the
\* page was written at the top of a new page.
C18_HeaderMovedToNewPage ==
  \E k \in 1..Len(ContentWritten) :
    /\ overflows[k]
    /\ ContentWritten[k].kind = "header"
    /\ ContentWritten[k].y = Margin
    /\ ContentWritten[k].page = 1

\* C18 as stated: a page is started during the content pass only by such
\* an overflow: the page count after the content pass is 1 plus the number
\* of overflows.
C18_AsStated ==
  pdfPc = "padding" => contentPages = 1 + OverflowCount

\* The times at which an adapter call can have returned.
FetchTimes == {t * TickSeconds : t \in 0..MaxTicks}

\* The store holds under competitor:X, if anything, the serialization of
\* a record an adapter call for X returned.
CacheHoldsOwnRecords ==
  \A c \in Identifiers : \A k \in DOMAIN cache :
    (k = "competitor:" \o c /\ cache[k].present) =>
      \E t \in FetchTimes : cache[k].text = JSONstringify(scrapeWebsite(c, t))

\* A step reads the store only under the key of the callback that reads
\* and changes it only under the key of the callback whose write returns,
\* to the serialization of the record that callback fetched.
OwnKeyOnly ==
  /\ \A i \in Slots :
       (entry[i] = "reading" /\ entry'[i] # "reading" /\ entry'[i] # "rejected") =>
         \E k \in DOMAIN cache :
           /\ k = "competitor:" \o body.competitors[i]
           /\ cachedData'[i] = getCachedData(cache, k, now)
  /\ \A k \in DOMAIN cache :
       cache'[k] # cache[k] =>
         \E i \in Slots :
           /\ entry[i] = "writing" /\ entry'[i] = "resolved"
           /\ k = "competitor:" \o body.competitors[i]
           /\ cache'[k].text = JSONstringify(scrapedData[i])
           /\ \A other \in DOMAIN cache : other # k => cache'[other] = cache[other]

\* C19: under every interleaving of the callbacks of a request, each
\* callback reads and writes only the key competitor:<its own identifier>;
\* the value under competitor:X, if present, is always the serialization of
\* a record an adapter call for X returned; and the write that returns last
\* is the one the store keeps.
C19_OwnKeyLastWriteWins ==
  /\ [](CacheHoldsOwnRecords /\ DOMAIN cache = Keys)
  /\ [][OwnKeyOnly]_vars

\* C19, a case: two callbacks for the same competitor fetched different
\* records and both wrote them; the store keeps the one written last and
\* holds nothing under the other key.
C19_RaceOnOneKey ==
  /\ body.competitors = <<"acme", "acme">>
  /\ entry[1] = "resolved" /\ entry[2] = "resolved"
  /\ scrapedData[1] # scrapedData[2]
  /\ cacheWrites[1].storedAt > cacheWrites[2].storedAt
  /\ cacheWrites[2].storedAt >= 0
  /\ cache["competitor:acme"].text = JSONstringify(scrapedData[1])
  /\ cache["competitor:acme"].text # JSONstringify(scrapedData[2])
  /\ ~cache["competitor:globex"].present

\* The pages the padding loop has added so far.
PaddingPages == doc.pageCount - contentPages

====
